---- MODULE Spec2Model ----
(***************************************************************************)
(* The streaming loop of grbl_streamer.cpp (main, lines 230-331) and the   *)
(* serial line reader readSerialLine (lines 48-83).                        *)
(*                                                                         *)
(* Text is a sequence of one-character strings.  The G-code file is a      *)
(* character sequence read through an input position (std::ifstream), the *)
(* device is an environment that answers every read(2) and write(2) call.  *)
(***************************************************************************)
EXTENDS Integers, Sequences, FiniteSets, TLC

VARIABLES
    file,         \* contents of the G-code file (gcode_file), fixed in a run
    pos,          \* input position of gcode_file (characters consumed)
    eofbit,       \* std::ios eofbit of gcode_file
    failbit,      \* std::ios failbit of gcode_file
    available,    \* int available
    pending,      \* std::queue<size_t> pending_lengths
    return_code,  \* int return_code
    pc,           \* position in main: "fill", "check", "ack", "done"
    writes,       \* history: every write(2) call, [rec |-> text, n |-> result]
    credited,     \* history: lengths added back to available, in order
    nReads,       \* history: number of readSerialLine calls of the loop
    readEnd,      \* history: how the last readSerialLine call ended
    response,     \* std::string response of the last iteration, trimmed
    classified    \* history: branch taken at line 301 for the last response

vars == <<file, pos, eofbit, failbit, available, pending, return_code, pc,
          writes, credited, nReads, readEnd, response, classified>>

(***************************************************************************)
(* Program constant and the bounds of the model.                           *)
(***************************************************************************)
RX_BUFFER_SIZE == 127

MaxLines == 3

\* longest raw line of the one-line files
MaxRaw == 4

\* longest response text of the classification runs
MaxResp == 3

\* No run of the loop reads more responses than this (see ReadCapIsSlack).
ReadCap == 2 * MaxLines + 2

(***************************************************************************)
(* Text helpers.                                                           *)
(***************************************************************************)
Rep(c, n) == [i \in 1..n |-> c]

RECURSIVE Sum(_)
Sum(q) == IF q = <<>> THEN 0 ELSE Head(q) + Sum(Tail(q))

RECURSIVE Join(_)
\* the lines of a file, each followed by its newline
Join(ls) == IF ls = <<>> THEN <<>> ELSE Head(ls) \o <<"\n">> \o Join(Tail(ls))

Whitespace == {" ", "\t", "\r", "\n"}

\* std::string::find(c): index (from 0) of the first c, or -1 for npos
FindChar(s, c) ==
    IF \E i \in 1..Len(s) : s[i] = c
    THEN (CHOOSE i \in 1..Len(s) : s[i] = c /\ \A j \in 1..(i - 1) : s[j] # c) - 1
    ELSE -1

\* std::string::find_last_not_of(" \t\r\n"): index from 0, or -1 for npos
FindLastNotOf(s) ==
    IF \E i \in 1..Len(s) : s[i] \notin Whitespace
    THEN (CHOOSE i \in 1..Len(s) :
            s[i] \notin Whitespace /\ \A j \in (i + 1)..Len(s) : s[j] \in Whitespace) - 1
    ELSE -1

\* std::string::find_first_not_of(" \t\r\n"): index from 0, or -1 for npos
FindFirstNotOf(s) ==
    IF \E i \in 1..Len(s) : s[i] \notin Whitespace
    THEN (CHOOSE i \in 1..Len(s) :
            s[i] \notin Whitespace /\ \A j \in 1..(i - 1) : s[j] \in Whitespace) - 1
    ELSE -1

(***************************************************************************)
(* The G-code file stream.                                                 *)
(***************************************************************************)
\* std::getline(gcode_file, line): the stream state after the call, the line
\* extracted and whether the stream converts to true.
Getline(f, p, eof, fail) ==
    IF eof \/ fail
    THEN [ok |-> FALSE, line |-> <<>>, pos |-> p, eof |-> eof, fail |-> TRUE]
    ELSE IF p >= Len(f)
    THEN [ok |-> FALSE, line |-> <<>>, pos |-> p, eof |-> TRUE, fail |-> TRUE]
    ELSE IF \E i \in (p + 1)..Len(f) : f[i] = "\n"
    THEN LET nl == CHOOSE i \in (p + 1)..Len(f) :
                       f[i] = "\n" /\ \A j \in (p + 1)..(i - 1) : f[j] # "\n"
         IN [ok |-> TRUE, line |-> SubSeq(f, p + 1, nl - 1), pos |-> nl,
             eof |-> FALSE, fail |-> FALSE]
    ELSE [ok |-> TRUE, line |-> SubSeq(f, p + 1, Len(f)), pos |-> Len(f),
          eof |-> TRUE, fail |-> FALSE]

\* gcode_file.seekg(off, std::ios::cur): eofbit is cleared; a position before
\* the start of the file is refused and sets failbit.
Seekg(p, fail, off) ==
    IF fail THEN [pos |-> p, eof |-> FALSE, fail |-> TRUE]
    ELSE IF p + off < 0 THEN [pos |-> p, eof |-> FALSE, fail |-> TRUE]
    ELSE [pos |-> p + off, eof |-> FALSE, fail |-> FALSE]

\* mutant of StripComment: only a line that starts with ';' is a comment
StripCommentAtStart(l) == IF l # <<>> /\ l[1] = ";" THEN <<>> ELSE l

\* lines 242-246: cut at the first ';', erase trailing whitespace
StripComment(l) ==
    LET comment_pos == FindChar(l, ";")
    IN IF comment_pos # -1 THEN SubSeq(l, 1, comment_pos) ELSE l

TrimTrailing(l) == SubSeq(l, 1, FindLastNotOf(l) + 1)

\* mutant of WireLen: the length without the "\n" the write appends
WireLenWithoutTerminator(l) == Len(l)

\* line 250: size_t len = line.length() + 1
WireLen(l) == Len(l) + 1

\* mutant of Fits: the terminator byte is left out of the comparison
FitsWithoutTerminator(len, avail) == ~(len - 1 > avail)

\* line 251, negated: the line may be sent now
Fits(len, avail) == ~(len > avail)

\* line 262: the write wrote the whole record
WriteOk(ret, size) == ret = size

(***************************************************************************)
(* The files a run may be given.                                           *)
(***************************************************************************)
Short     == <<"G", "1">>
Half      == Rep("X", RX_BUFFER_SIZE \div 2)
Full      == Rep("Y", RX_BUFFER_SIZE - 1)
Oversize  == Rep("Z", RX_BUFFER_SIZE)

LineSet ==
    { <<>>,                          \* blank line
      <<";", "c">>,                  \* comment only
      Short \o <<"\r">>,             \* CRLF ending
      Half,
      Half \o <<" ", ";", "c">>,     \* trailing blank and comment
      Full,                          \* fills the buffer exactly
      Oversize }                     \* one byte more than the buffer

SeqsUpTo(S, n) == UNION { [1..k -> S] : k \in 0..n }

\* a file whose last line may lack its newline
MkFile(ls, nl) ==
    IF ls = <<>> THEN <<>>
    ELSE IF nl THEN Join(ls)
    ELSE SubSeq(Join(ls), 1, Len(Join(ls)) - 1)

FileSet == { MkFile(ls, nl) : ls \in SeqsUpTo(LineSet, MaxLines), nl \in BOOLEAN }

(***************************************************************************)
(* The serial device: one record per select(2)/read(2) round of            *)
(* readSerialLine.  retval is select's result, n is read's result and buf  *)
(* the byte it stored.                                                     *)
(***************************************************************************)
Byte(c)     == [retval |-> 1, n |-> 1, buf |-> c]
ReadEOF     == [retval |-> 1, n |-> 0, buf |-> ""]
ReadError   == [retval |-> 1, n |-> -1, buf |-> ""]
SelectError == [retval |-> -1, n |-> 0, buf |-> ""]

RECURSIVE ReadLoop(_, _)
\* lines 50-81: the loop of readSerialLine over the rounds the device offers;
\* done is FALSE when the rounds run out before the loop breaks (the call
\* is still blocked in select).
ReadLoop(script, line) ==
    IF script = <<>> THEN [done |-> FALSE, line |-> line, end |-> "blocked"]
    ELSE LET r == Head(script) IN
         IF r.retval = -1 THEN [done |-> TRUE, line |-> line, end |-> "select"]
         ELSE IF r.retval = 0 THEN [done |-> TRUE, line |-> line, end |-> "timeout"]
         ELSE IF r.n > 0
              THEN IF r.buf = "\n"
                   THEN [done |-> TRUE, line |-> Append(line, r.buf), end |-> "newline"]
                   ELSE ReadLoop(Tail(script), Append(line, r.buf))
         ELSE IF r.n = 0 THEN [done |-> TRUE, line |-> line, end |-> "eof"]
         ELSE [done |-> TRUE, line |-> line, end |-> "error"]

\* std::string readSerialLine(int fd, bool verbose)
readSerialLine(script) == ReadLoop(script, <<>>)

\* lines 287-294: trim the response at both ends; a response of whitespace
\* only is left as it is
TrimResponse(r) ==
    LET start == FindFirstNotOf(r)
        r1    == IF start # -1 THEN SubSeq(r, start + 1, Len(r)) ELSE r
        end   == FindLastNotOf(r1)
    IN IF end # -1 THEN SubSeq(r1, 1, end + 1) ELSE r1

Upper == <<"A","B","C","D","E","F","G","H","I","J","K","L","M",
           "N","O","P","Q","R","S","T","U","V","W","X","Y","Z">>
Lower == <<"a","b","c","d","e","f","g","h","i","j","k","l","m",
           "n","o","p","q","r","s","t","u","v","w","x","y","z">>

\* mutant of tolower: the response is compared in the case it came in
tolowerNone(c) == c

\* std::tolower in the "C" locale
tolower(c) ==
    IF \E i \in 1..26 : Upper[i] = c
    THEN Lower[CHOOSE i \in 1..26 : Upper[i] = c]
    ELSE c

\* lines 297-299: std::transform(..., tolower)
LowerResponse(r) == [i \in 1..Len(r) |-> tolower(r[i])]

\* std::string::find("ok") != npos
FindOk(s) == \E i \in 1..(Len(s) - 1) : s[i] = "o" /\ s[i + 1] = "k"

\* line 301: the response is a positive acknowledgment
IsAck(r) == \E lower_response \in {LowerResponse(r)} : FindOk(lower_response)

(***************************************************************************)
(* What the device may answer to one readSerialLine call.                  *)
(***************************************************************************)
Bytes(t) == [i \in 1..Len(t) |-> Byte(t[i])]

TextOk      == <<"o", "k">>
TextOkCR    == <<"o", "k", "\r">>
TextUpperOk == <<"O", "K">>
TextError9  == <<"e", "r", "r", "o", "r", ":", "9", "\r">>

\* complete lines containing the acknowledgment token
AckScripts ==
    { Bytes(t) \o <<Byte("\n")>> : t \in {TextOkCR, TextUpperOk} }

\* complete lines without it
ErrorScripts ==
    { Bytes(t) \o <<Byte("\n")>> : t \in {TextError9, <<>>} }

\* the transport fails or closes, at once or after some bytes
BrokenScripts ==
    { Bytes(t) \o <<e>> : t \in {<<>>, TextOk}, e \in {ReadEOF, ReadError} }
      \cup { <<SelectError>> }

AllScripts == AckScripts \cup ErrorScripts \cup BrokenScripts

(***************************************************************************)
(* Initial state: lines 220-233.                                           *)
(***************************************************************************)
Init ==
    /\ file \in FileSet
    /\ pos = 0
    /\ eofbit = FALSE
    /\ failbit = FALSE
    /\ available = RX_BUFFER_SIZE
    /\ pending = <<>>
    /\ return_code = 0
    /\ pc = "fill"
    /\ writes = <<>>
    /\ credited = <<>>
    /\ nReads = 0
    /\ readEnd = "none"
    /\ response = <<>>
    /\ classified = "none"

history == <<writes, credited, nReads, readEnd, response, classified>>

(***************************************************************************)
(* Fill phase: one pass of the inner loop, lines 237-270.                  *)
(***************************************************************************)
\* the line the next std::getline yields
NextLine == Getline(file, pos, eofbit, failbit)

\* lines 242-246 applied to it, one statement after the other
NextRecord ==
    CHOOSE rec \in { TrimTrailing(cut) :
                       cut \in { StripComment(raw) : raw \in {NextLine.line} } } : TRUE

\* line 237: the loop condition holds
FillEnters == available > 0 /\ NextLine.ok

\* lines 239 and 247: the line is skipped
Skipped == NextLine.line = <<>> \/ NextRecord = <<>>

\* line 237 fails: the buffer is full or the file is exhausted
FillStop ==
    /\ pc = "fill"
    /\ ~FillEnters
    /\ IF available > 0
       THEN /\ pos' = NextLine.pos
            /\ eofbit' = NextLine.eof
            /\ failbit' = NextLine.fail
       ELSE UNCHANGED <<pos, eofbit, failbit>>
    /\ pc' = "check"
    /\ UNCHANGED <<file, available, pending, return_code, history>>

\* lines 239, 247: continue
FillSkip ==
    /\ pc = "fill"
    /\ FillEnters
    /\ Skipped
    /\ pos' = NextLine.pos
    /\ eofbit' = NextLine.eof
    /\ failbit' = NextLine.fail
    /\ UNCHANGED <<file, available, pending, return_code, pc, history>>

\* lines 251-255: the record does not fit; seek back and leave the loop
FillHold ==
    /\ pc = "fill"
    /\ FillEnters
    /\ ~Skipped
    /\ ~Fits(WireLen(NextRecord), available)
    /\ LET s == Seekg(NextLine.pos, NextLine.fail, -(Len(NextRecord) + 1))
       IN /\ pos' = s.pos
          /\ eofbit' = s.eof
          /\ failbit' = s.fail
    /\ pc' = "check"
    /\ UNCHANGED <<file, available, pending, return_code, history>>

\* lines 258-269: write the record; ret is what write(2) returns
FillWrite(ret) ==
    /\ pc = "fill"
    /\ FillEnters
    /\ ~Skipped
    /\ Fits(WireLen(NextRecord), available)
    /\ pos' = NextLine.pos
    /\ eofbit' = NextLine.eof
    /\ failbit' = NextLine.fail
    /\ writes' = Append(writes, [rec |-> NextRecord, n |-> ret])
    /\ IF WriteOk(ret, Len(NextRecord) + 1)
       THEN /\ available' = available - WireLen(NextRecord)
            /\ pending' = Append(pending, WireLen(NextRecord))
            /\ UNCHANGED <<return_code, pc>>
       ELSE /\ return_code' = 1
            /\ pc' = "check"
            /\ UNCHANGED <<available, pending>>
    /\ UNCHANGED <<file, credited, nReads, readEnd, response, classified>>

\* the write writes every byte
FillSend == FillWrite(Len(NextRecord) + 1)

\* the write fails (-1) or is short
FillWriteError == \E ret \in {-1, Len(NextRecord)} : FillWrite(ret)

(***************************************************************************)
(* Lines 273-275.                                                          *)
(***************************************************************************)
\* mutant of TermCheck: the backlog is not looked at before the read
TermCheckAlwaysReads ==
    /\ pc = "check"
    /\ pc' = "ack"
    /\ UNCHANGED <<file, pos, eofbit, failbit, available, pending, return_code,
                   history>>

TermCheck ==
    /\ pc = "check"
    /\ pc' = IF pending = <<>> THEN "done" ELSE "ack"
    /\ UNCHANGED <<file, pos, eofbit, failbit, available, pending, return_code,
                   history>>

(***************************************************************************)
(* Acknowledgment phase: lines 281-316.                                    *)
(***************************************************************************)
\* mutant of QueueFront: back() in place of front()
QueueBack(q) == q[Len(q)]

\* mutant of QueuePop: the entry is read but never popped
QueueKeep(q) == q

\* mutant of Credit: the terminator byte is not given back
CreditWithoutTerminator(avail, len) == avail + (len - 1)

\* line 303: pending_lengths.front()
QueueFront(q) == Head(q)

\* line 304: pending_lengths.pop()
QueuePop(q) == Tail(q)

\* line 305: available += len
Credit(avail, len) == avail + len

\* the response read is a positive acknowledgment: lines 301-309, 316
AckOk(scripts) ==
    /\ pc = "ack"
    /\ nReads < ReadCap
    /\ \E script \in scripts :
         \E r \in {readSerialLine(script)} :
           \E trimmed \in {TrimResponse(r.line)} :
             /\ r.done
             /\ IsAck(trimmed)
             /\ response' = trimmed
             /\ readEnd' = r.end
    /\ nReads' = nReads + 1
    /\ classified' = "ack"
    /\ IF pending # <<>>
       THEN /\ available' = Credit(available, QueueFront(pending))
            /\ pending' = QueuePop(pending)
            /\ credited' = Append(credited, QueueFront(pending))
       ELSE UNCHANGED <<available, pending, credited>>
    /\ pc' = IF return_code # 0 THEN "done" ELSE "fill"
    /\ UNCHANGED <<file, pos, eofbit, failbit, return_code, writes>>

\* any other response: lines 310-314; next is where main goes on
AckErrorTo(scripts, next) ==
    /\ pc = "ack"
    /\ nReads < ReadCap
    /\ \E script \in scripts :
         \E r \in {readSerialLine(script)} :
           \E trimmed \in {TrimResponse(r.line)} :
             /\ r.done
             /\ ~IsAck(trimmed)
             /\ response' = trimmed
             /\ readEnd' = r.end
    /\ nReads' = nReads + 1
    /\ classified' = "error"
    /\ pc' = next
    /\ UNCHANGED <<file, pos, eofbit, failbit, available, pending, return_code,
                   writes, credited>>

\* mutant of AckError: the break of line 313 is missing
AckErrorResumes(scripts) == AckErrorTo(scripts, "fill")

\* line 313: break
AckError(scripts) == AckErrorTo(scripts, "done")

Next ==
    \/ FillStop
    \/ FillSkip
    \/ FillHold
    \/ FillSend
    \/ FillWriteError
    \/ TermCheck
    \/ AckOk(AllScripts)
    \/ AckError(AllScripts)

Spec == Init /\ [][Next]_vars

\* The device acknowledges every command and every write succeeds; the loop
\* is sequential code, so it always takes its next step.
NextAck ==
    \/ FillStop
    \/ FillSkip
    \/ FillHold
    \/ FillSend
    \/ TermCheck
    \/ AckOk(AckScripts)

SpecAck == Init /\ [][NextAck]_vars /\ WF_vars(NextAck)

\* the cap on nReads never stops a run
ReadCapIsSlack == nReads < ReadCap

(***************************************************************************)
(* Notions the claims are stated with.                                     *)
(***************************************************************************)
\* the records written in full, in write order, and their wire lengths
Written  == SelectSeq(writes, LAMBDA w : w.n = Len(w.rec) + 1)
SentLens == [i \in 1..Len(Written) |-> Len(Written[i].rec) + 1]

RECURSIVE RecordsFrom(_, _)
\* the command records the file still holds from position p on
RecordsFrom(f, p) ==
    CHOOSE records \in
        { IF ~g.ok THEN <<>>
          ELSE LET r == TrimTrailing(StripComment(g.line))
               IN (IF r = <<>> THEN <<>> ELSE <<r>>) \o RecordsFrom(f, g.pos) :
            g \in {Getline(f, p, FALSE, FALSE)} } : TRUE

Unsent == RecordsFrom(file, pos)

(***************************************************************************)
(* C1  Conservation: in every state of the loop, available plus the sum    *)
(* of the pending lengths is RX_BUFFER_SIZE, whatever the file, the        *)
(* responses and the write results are.                                    *)
(***************************************************************************)
C1_Conservation == available + Sum(pending) = RX_BUFFER_SIZE

\* two commands in flight after a first one was credited
C1_Witness == Len(pending) >= 2 /\ credited # <<>>

\* the ranges of available and of the pending sum
C2_InRange ==
    /\ available \in 0..RX_BUFFER_SIZE
    /\ Sum(pending) <= RX_BUFFER_SIZE

\* what one step of the loop may do to writes and to available
C2_Step ==
    /\ writes' # writes =>
         /\ Len(writes') = Len(writes) + 1
         /\ WireLen(writes'[Len(writes')].rec) <= available
    /\ available' < available =>
         /\ Len(writes') = Len(writes) + 1
         /\ writes'[Len(writes')].n = WireLen(writes'[Len(writes')].rec)
         /\ available' = available - WireLen(writes'[Len(writes')].rec)
    /\ available' > available =>
         /\ nReads' = nReads + 1
         /\ classified' = "ack"
         /\ pending # <<>>
         /\ available' = available + Head(pending)

(***************************************************************************)
(* C2  No overflow: every write is of a record whose wire length is at     *)
(* most available; available stays in 0..RX_BUFFER_SIZE and the pending    *)
(* sum never exceeds RX_BUFFER_SIZE; available goes down only by the       *)
(* length of a record written in full and up only by the length credited   *)
(* for a consumed positive acknowledgment.                                 *)
(***************************************************************************)
C2_NoOverflow == [][C2_InRange /\ C2_InRange' /\ C2_Step]_vars

\* a record that fills the buffer exactly was written
C2_Witness == available = 0 /\ pending # <<>>

(***************************************************************************)
(* C3  FIFO acknowledgment: the lengths credited so far are the lengths    *)
(* of the first records sent, in send order, and the pending queue holds   *)
(* the lengths of the rest, whatever text the acknowledgments carried.     *)
(***************************************************************************)
C3_Fifo ==
    /\ Len(credited) <= Len(SentLens)
    /\ credited = SubSeq(SentLens, 1, Len(credited))
    /\ pending = SubSeq(SentLens, Len(credited) + 1, Len(SentLens))

\* two different lengths were credited and a third is pending
C3_Witness ==
    /\ Len(credited) >= 2
    /\ credited[1] # credited[2]
    /\ pending # <<>>

(***************************************************************************)
(* C4  Termination: when every response is a positive acknowledgment and   *)
(* every write succeeds, the loop ends with return_code 0 and an empty     *)
(* pending queue.                                                          *)
(***************************************************************************)
C4_Terminates == <>(pc = "done" /\ return_code = 0 /\ pending = <<>>)

\* a finished run that sent more than one buffer of commands, so it had to
\* wait for credit before it could go on
C4_Witness ==
    /\ pc = "done"
    /\ return_code = 0
    /\ pending = <<>>
    /\ Sum(credited) > RX_BUFFER_SIZE

(***************************************************************************)
(* C5  Success postcondition: the loop ends with return_code 0 only when   *)
(* the file holds no further command record, nothing is pending and        *)
(* available is RX_BUFFER_SIZE again.                                      *)
(***************************************************************************)
C5_SuccessPostcondition ==
    (pc = "done" /\ return_code = 0) =>
        /\ Unsent = <<>>
        /\ pending = <<>>
        /\ available = RX_BUFFER_SIZE

(***************************************************************************)
(* C6  Halt on device error: the step that classifies a response as not a  *)
(* positive acknowledgment leaves available and the pending queue as they  *)
(* were, and after it nothing is written and nothing is read.              *)
(***************************************************************************)
C6_HaltOnDeviceError ==
    [][classified' = "error" =>
         /\ available' = available
         /\ pending' = pending
         /\ writes' = writes
         /\ classified = "error" => nReads' = nReads]_vars

\* an error response arrived after a credit, with a command still in flight
\* and commands still in the file
C6_Witness ==
    /\ classified = "error"
    /\ pc = "done"
    /\ credited # <<>>
    /\ pending # <<>>
    /\ Unsent # <<>>

(***************************************************************************)
(* C7  Device error outcome: when the loop ends because a complete         *)
(* response line was classified as a device error, return_code is not 0.   *)
(***************************************************************************)
C7_DeviceErrorFails ==
    (pc = "done" /\ classified = "error" /\ readEnd = "newline") => return_code # 0

(***************************************************************************)
(* C8  Fast-fail on oversize: when the next command record of the file     *)
(* has a wire length above RX_BUFFER_SIZE, the loop does not end with      *)
(* return_code 0 leaving that record unsent.                               *)
(***************************************************************************)
C8_OversizeFails ==
    (pc = "done" /\ Unsent # <<>> /\ WireLen(Head(Unsent)) > RX_BUFFER_SIZE) =>
        return_code # 0

(***************************************************************************)
(* C9  Write failure is immediately fatal: once a write failed or was      *)
(* short (return_code is 1), no response is read, nothing is credited and  *)
(* nothing more is written.                                                *)
(***************************************************************************)
C9_WriteFailureFatal ==
    [][return_code # 0 =>
         /\ nReads' = nReads
         /\ available' = available
         /\ pending' = pending
         /\ writes' = writes]_vars

(***************************************************************************)
(* C10 Transport read failure is fatal: when readSerialLine ended on a     *)
(* read result of 0 or below, the loop is over with a return_code other    *)
(* than 0 and the bytes read before the failure credited nothing.          *)
(***************************************************************************)
C10_ReadFailureFatal ==
    readEnd \in {"eof", "error"} =>
        /\ pc = "done"
        /\ return_code # 0
        /\ classified # "ack"

(***************************************************************************)
(* C11 In-order, exactly-once sending: the records written are always a    *)
(* prefix of the command records of the file, in file order; a record      *)
(* held back because it did not fit is written unchanged later.            *)
(***************************************************************************)
C11_InOrderExactlyOnce ==
    LET source == RecordsFrom(file, 0)
    IN /\ Len(Written) <= Len(source)
       /\ \A i \in 1..Len(Written) : Written[i].rec = source[i]

(***************************************************************************)
(* Runs of the loop on chosen files.                                       *)
(***************************************************************************)
\* lines 220-233 for a file of the set files
InitOn(files) ==
    /\ file \in files
    /\ pos = 0
    /\ eofbit = FALSE
    /\ failbit = FALSE
    /\ available = RX_BUFFER_SIZE
    /\ pending = <<>>
    /\ return_code = 0
    /\ pc = "fill"
    /\ writes = <<>>
    /\ credited = <<>>
    /\ nReads = 0
    /\ readEnd = "none"
    /\ response = <<>>
    /\ classified = "none"

\* seq with x put in after its first k elements
InsertAt(seq, k, x) == SubSeq(seq, 1, k) \o <<x>> \o SubSeq(seq, k + 1, Len(seq))

\* files of five commands, short or half a buffer long, with or without a
\* blank line among them
FiveCommandFiles ==
    LET cmds == [1..5 -> {Short \o <<"\r">>, Half}]
    IN { Join(c) : c \in cmds }
         \cup { Join(InsertAt(c, k, <<>>)) : c \in cmds, k \in 0..5 }

\* the device acknowledges the first command and answers error:9 next
HaltScripts ==
    IF nReads = 0 THEN AckScripts ELSE { Bytes(TextError9) \o <<Byte("\n")>> }

NextHalt ==
    \/ FillStop
    \/ FillSkip
    \/ FillHold
    \/ FillSend
    \/ TermCheck
    \/ AckOk(HaltScripts)
    \/ AckError(HaltScripts)

SpecHalt == InitOn(FiveCommandFiles) /\ [][NextHalt]_vars

(***************************************************************************)
(* C12 as stated: once the second response, error:9, is classified, one    *)
(* length has been credited and no more than two commands were written     *)
(* (commands 3, 4 and 5 are never written).                                *)
(***************************************************************************)
C12_Original ==
    classified = "error" => Len(credited) = 1 /\ Len(writes) <= 2

(***************************************************************************)
(* C12 amended: the step that classifies error:9 ends the loop and writes  *)
(* nothing; exactly the first command's length has been credited, all      *)
(* other written commands stay in flight, and the commands among 3, 4 and  *)
(* 5 that were not written before are left in the file.                    *)
(***************************************************************************)
C12_HaltScenario ==
    [][classified' = "error" =>
         \E sent \in {SentLens'} : \E left \in {Len(Unsent')} :
           /\ pc' = "done"
           /\ writes' = writes
           /\ Len(credited') = 1
           /\ credited' = SubSeq(sent, 1, 1)
           /\ pending' = Tail(sent)
           /\ \E inFlight \in {Tail(sent)} :
                available' = RX_BUFFER_SIZE - Sum(inFlight)
           /\ Len(sent) + left = 5]_vars

\* the error arrived when all five commands were already written
C12_Witness ==
    /\ classified = "error"
    /\ pc = "done"
    /\ Len(writes) = 5
    /\ Len(credited) = 1

(***************************************************************************)
(* Runs on files of one raw line, every line of up to MaxRaw characters    *)
(* of RawAlphabet, and on the files of the end-to-end scenario.            *)
(***************************************************************************)
RawAlphabet == {"G", " ", "\t", "\r", ";"}

RawLines == SeqsUpTo(RawAlphabet, MaxRaw)

ExampleLine   == <<"G", "1", " ", "X", "1", " ", ";", " ", "c", "o", "m", "m", "e", "n", "t">>
ExampleRecord == <<"G", "1", " ", "X", "1">>

ScenarioLines ==
    << <<"G", "1", " ", "X", "1", "0", " ", "F", "1", "0", "0">>,
       <<>>,
       <<";", " ", "c", "o", "m", "m", "e", "n", "t", " ", "o", "n", "l", "y">>,
       <<"G", "1", " ", "Y", "1", "0">> >>

ScenarioFirst  == <<"G", "1", " ", "X", "1", "0", " ", "F", "1", "0", "0">>
ScenarioSecond == <<"G", "1", " ", "Y", "1", "0">>

ScenarioFiles == { MkFile(ScenarioLines, nl) : nl \in BOOLEAN }

OneLineFiles ==
    { MkFile(<<l>>, nl) : l \in RawLines \cup {ExampleLine}, nl \in BOOLEAN }

NextFilter ==
    \/ FillStop
    \/ FillSkip
    \/ FillSend
    \/ TermCheck
    \/ AckOk(AckScripts)

SpecFilter == InitOn(OneLineFiles \cup ScenarioFiles) /\ [][NextFilter]_vars

\* the file holds one raw line: no newline but, at most, a last one
OneLine(f) == \A i \in 1..(Len(f) - 1) : f[i] # "\n"

\* that raw line
RawOf(f) == IF f # <<>> /\ f[Len(f)] = "\n" THEN SubSeq(f, 1, Len(f) - 1) ELSE f

\* rec is the text of raw before its first ';' without its trailing whitespace
IsRecordOf(rec, raw) ==
    /\ Len(rec) <= Len(raw)
    /\ \A i \in 1..Len(rec) : rec[i] = raw[i] /\ rec[i] # ";"
    /\ rec = <<>> \/ rec[Len(rec)] \notin Whitespace
    /\ \E k \in Len(rec)..Len(raw) :
         /\ \A i \in (Len(rec) + 1)..k : raw[i] \in Whitespace
         /\ k = Len(raw) \/ raw[k + 1] = ";"

(***************************************************************************)
(* C13 Filtering: for a file of one raw line, whatever is written is the   *)
(* text before the first ';' with trailing whitespace removed; a line      *)
(* whose record is empty is never written nor counted; every pending       *)
(* entry is at least 2; "G1 X1 ; comment" is written as "G1 X1".           *)
(***************************************************************************)
C13_Filtering ==
    OneLine(file) =>
        \E raw \in {RawOf(file)} :
          /\ Len(writes) <= 1
          /\ \A i \in 1..Len(writes) :
               /\ writes[i].rec # <<>>
               /\ IsRecordOf(writes[i].rec, raw)
          /\ \A i \in 1..Len(pending) : pending[i] >= 2
          /\ \A i \in 1..Len(credited) : credited[i] >= 2
          /\ pending \o credited = [i \in 1..Len(writes) |-> Len(writes[i].rec) + 1]
          /\ pc = "done" => (writes = <<>> <=> IsRecordOf(<<>>, raw))
          /\ (pc = "done" /\ raw = ExampleLine) =>
               /\ Len(writes) = 1
               /\ writes[1].rec = ExampleRecord

\* the example line went through the loop
C13_Witness ==
    /\ RawOf(file) = ExampleLine
    /\ pc = "done"
    /\ Len(writes) = 1
    /\ credited = <<Len(ExampleRecord) + 1>>

(***************************************************************************)
(* C15 as stated: on the scenario file with every response ok, the loop    *)
(* ends with return_code 0 and available 127 after writing the two         *)
(* records, each of 12 bytes.                                              *)
(***************************************************************************)
C15_Original ==
    (file \in ScenarioFiles /\ pc = "done") =>
        /\ [i \in 1..Len(writes) |-> writes[i].rec] = <<ScenarioFirst, ScenarioSecond>>
        /\ credited = <<12, 12>>
        /\ return_code = 0
        /\ available = RX_BUFFER_SIZE

(***************************************************************************)
(* C15 amended: on the scenario file with every response ok, the loop      *)
(* ends with return_code 0 and available 127 after writing "G1 X10 F100"   *)
(* as 12 bytes and "G1 Y10" as 7 bytes, every write in full, and nothing   *)
(* for the blank and the comment-only line.                                *)
(***************************************************************************)
C15_EndToEnd ==
    (file \in ScenarioFiles /\ pc = "done") =>
        /\ writes = << [rec |-> ScenarioFirst, n |-> 12],
                       [rec |-> ScenarioSecond, n |-> 7] >>
        /\ credited = <<12, 7>>
        /\ pending = <<>>
        /\ return_code = 0
        /\ available = RX_BUFFER_SIZE

\* the scenario ran to its end
C15_Witness ==
    /\ file \in ScenarioFiles
    /\ pc = "done"
    /\ Len(credited) = 2
    /\ nReads = 2


(***************************************************************************)
(* Response classification: two short commands are in flight and the       *)
(* device answers each read with any text of up to MaxResp characters.     *)
(***************************************************************************)
ResponseAlphabet == {"o", "O", "k", "K", "e", " ", "\r"}

ResponseTexts == SeqsUpTo(ResponseAlphabet, MaxResp)

\* every such text as a complete line, and a read that returns no text
ClassifyScripts ==
    { Bytes(t) \o <<Byte("\n")>> : t \in ResponseTexts } \cup { <<ReadEOF>> }

ClassifyFiles == { MkFile(<<Short, Short>>, nl) : nl \in BOOLEAN }

NextClassify ==
    \/ FillStop
    \/ FillSend
    \/ TermCheck
    \/ AckOk(ClassifyScripts)
    \/ AckError(ClassifyScripts)

SpecClassify == InitOn(ClassifyFiles) /\ [][NextClassify]_vars

\* the text holds an "o" directly followed by a "k", in either case
HasOkToken(text) ==
    \E i \in 1..(Len(text) - 1) :
        text[i] \in {"o", "O"} /\ text[i + 1] \in {"k", "K"}

(***************************************************************************)
(* C14: every response read gets exactly one classification: a positive    *)
(* acknowledgment, which credits the oldest entry and lets the loop go     *)
(* on, if and only if its trimmed text contains "ok" in any case; a        *)
(* device error, which credits nothing and ends the loop, for every other  *)
(* text, the empty one included.                                           *)
(***************************************************************************)
C14_Classification ==
    [][nReads' # nReads =>
         \E text \in {response'} :
           /\ classified' \in {"ack", "error"}
           /\ classified' = "ack" <=> HasOkToken(text)
           /\ classified' = "ack" =>
                /\ Len(credited') = Len(credited) + 1
                /\ pc' = "fill"
           /\ classified' = "error" =>
                /\ credited' = credited
                /\ pending' = pending
                /\ pc' = "done"]_vars

\* an upper-case acknowledgment was trimmed and credited
C14_Witness ==
    /\ classified = "ack"
    /\ response = <<"O", "K">>
    /\ Len(credited) = 1

\* a response without text ended the loop
C14_WitnessEmpty ==
    /\ classified = "error"
    /\ response = <<>>
    /\ pc = "done"


(***************************************************************************)
(* C16 Greedy fill before blocking: whenever the loop is about to call     *)
(* readSerialLine, the file has no further record, or available is 0, or   *)
(* the next record's wire length exceeds available; and a credited         *)
(* acknowledgment is never followed by another read without the fill       *)
(* phase in between.                                                       *)
(***************************************************************************)
C16_GreedyFill ==
    [][\E unsent \in {Unsent'} :
         /\ pc' = "ack" =>
              \/ unsent = <<>>
              \/ available' = 0
              \/ WireLen(Head(unsent)) > available'
         /\ (nReads' # nReads /\ classified' = "ack") => pc' \in {"fill", "done"}]_vars


(***************************************************************************)
(* C17 No read without in-flight work: every call of readSerialLine is     *)
(* made with a non-empty backlog, every positive acknowledgment read       *)
(* credits exactly one entry, the oldest, and the acknowledgments          *)
(* credited never outnumber the commands written in full.                  *)
(***************************************************************************)
C17_NoReadWithoutWork ==
    [][\E sent \in {SentLens'} :
         /\ nReads' # nReads =>
              /\ pending # <<>>
              /\ classified' = "ack" =>
                   /\ credited' = Append(credited, Head(pending))
                   /\ pending' = Tail(pending)
              /\ classified' # "ack" => credited' = credited
         /\ Len(credited') <= Len(sent)]_vars

\* two acknowledgments were read and credited, the backlog is empty again
C17_Witness ==
    /\ nReads = 2
    /\ Len(credited) = 2
    /\ pending = <<>>
    /\ classified = "ack"


(***************************************************************************)
(* Startup drain, lines 199-214, followed by the streaming loop.           *)
(***************************************************************************)
TextBanner == <<"G", "r", "b", "l", "\r">>

\* what the device does once the drain's select reported data: a complete
\* banner line, bytes without a terminator and then silence, or a failing
\* or closed transport
DrainScripts ==
    { Bytes(TextBanner) \o <<Byte("\n")>>,
      Bytes(TextBanner),
      <<Byte("G")>>,
      <<Byte("G"), ReadEOF>>,
      <<ReadEOF>>,
      <<ReadError>>,
      <<Byte("G"), SelectError>> }

\* the state right after tcflush, line 194
InitStart ==
    /\ file \in FiveCommandFiles
    /\ pos = 0
    /\ eofbit = FALSE
    /\ failbit = FALSE
    /\ available = RX_BUFFER_SIZE
    /\ pending = <<>>
    /\ return_code = 0
    /\ pc = "drain"
    /\ writes = <<>>
    /\ credited = <<>>
    /\ nReads = 0
    /\ readEnd = "none"
    /\ response = <<>>
    /\ classified = "none"

\* line 206: select with the one-second deadline; line 207: only a
\* positive result leads to a read
DrainSelect ==
    /\ pc = "drain"
    /\ \E retval \in {-1, 0, 1} :
         pc' = IF retval > 0 THEN "drainRead" ELSE "fill"
    /\ UNCHANGED <<file, pos, eofbit, failbit, available, pending, return_code,
                   history>>

\* line 208: readSerialLine, whose select (line 56) has no deadline; when
\* the device falls silent before a "\n" the call never returns
DrainRead ==
    /\ pc = "drainRead"
    /\ \E script \in DrainScripts :
         \E r \in {readSerialLine(script)} :
           /\ response' = r.line
           /\ readEnd' = r.end
           /\ pc' = IF r.done THEN "fill" ELSE "stalled"
    /\ UNCHANGED <<file, pos, eofbit, failbit, available, pending, return_code,
                   writes, credited, nReads, classified>>

NextStart ==
    \/ DrainSelect
    \/ DrainRead
    \/ FillStop
    \/ FillSkip
    \/ FillHold
    \/ FillSend
    \/ TermCheck
    \/ AckOk(AckScripts)
    \/ AckError(ErrorScripts)

SpecStart == InitStart /\ [][NextStart]_vars

(***************************************************************************)
(* C18 Bounded startup drain: the drain never waits without a deadline,    *)
(* so it always gets to the streaming loop, whether the device emits       *)
(* nothing, a complete banner line or bytes without a terminator; and it   *)
(* leaves return_code at 0.                                                *)
(***************************************************************************)
C18_BoundedDrain ==
    /\ pc # "stalled"
    /\ pc \in {"drain", "drainRead"} => return_code = 0
    /\ (pc = "fill" /\ writes = <<>> /\ nReads = 0) => return_code = 0

====
